---- MODULE Spec2Model ----
(***************************************************************************)
(* Meet-Booking-Assistant: the availability engine                         *)
(* (calendar_integrations.py), the dialogue agent wrapper                  *)
(* (langchain_chat.py) and the socket session manager (app.py).            *)
(*                                                                         *)
(* Instants are integers: minutes after an arbitrary origin in the fixed   *)
(* timezone.  A slot or busy interval is the pair <<start, end>>, as the   *)
(* code's (start, end) tuples.                                             *)
(***************************************************************************)
EXTENDS Integers, Sequences, FiniteSets, TLC

\* ------------------------------------------------------------------ bounds
\* Instants of the engine's inputs are the multiples of Granule in 0..MaxTime.
Granule == 15
MaxTime == 180
\* Longest busy interval and longest busy list the backend returns.
MaxBusyLen == 45
MaxBusy == 2
\* Connection ids 1..MaxSid, Chat objects ever constructed, messages ever
\* delivered, message handlers in flight at once, tool calls per agent run.
MaxSid == 2
MaxChats == 2
MaxMsgs == 2
MaxHandlers == 2
MaxTools == 1
\* longest slot duration a caller passes, in minutes
MaxDuration == 60

\* ------------------------------------------------------- program constants
\* def get_available_slots_on_calender(start, end, duration_minutes=30)
DefaultDuration == 30
\* start_dt += timedelta(minutes=30)
Stride == 30
\* end_dt = start_dt + timedelta(minutes=30) in book_slot_on_calendar
BookingMinutes == 30

VARIABLES
    \* --- one call of get_available_slots_on_calender, statement by statement
    start,              \* parameter start
    end,                \* parameter end
    duration_minutes,   \* parameter duration_minutes
    busy_slots,         \* the busy list parsed from the backend's answer
    start_dt,           \* the loop cursor
    available_slots,    \* the list being built
    eng_pc,             \* "loop" | "returned"
    first_call,         \* what the caller keeps of the first of several calls
    \* --- the process: app.py's registry, the heap, the handlers in flight
    ChatSessions,       \* sid -> [chat_instance, chat_history]
    nchats,             \* Chat objects constructed so far
    lists,              \* contents of the Python list objects, by reference
    handlers,           \* the handle_message green threads
    msgs,               \* messages delivered so far
    calendar,           \* the backend's events
    reported,           \* per Chat: what its availability tool has returned
    emitted,            \* what the latest step emitted to the client, if anything
    sent,               \* the backend requests the latest step sent
    book_call           \* the invocation of book_slot the latest step made, if any

engineVars == <<start, end, duration_minutes, busy_slots, start_dt,
                available_slots, eng_pc, first_call>>

sessionVars == <<ChatSessions, nchats, lists, handlers, msgs, calendar,
                 reported, emitted, sent, book_call>>

vars == <<start, end, duration_minutes, busy_slots, start_dt,
          available_slots, eng_pc, first_call, ChatSessions, nchats, lists, handlers,
          msgs, calendar, reported, emitted, sent, book_call>>

\* ------------------------------------------------------------ input sets
Instants == {t \in 0..MaxTime : t % Granule = 0}

BusyIntervals ==
    {<<s, e>> \in Instants \X Instants : s < e /\ e - s <= MaxBusyLen}

BusyLists == UNION {[1..n -> BusyIntervals] : n \in 0..MaxBusy}

\* the positive values of duration_minutes a caller passes
Durations == {d \in 1..MaxDuration : d % Granule = 0}

\* ------------------------------------------------- the availability engine
\* Mutant: only a candidate that starts inside a busy interval counts.
Overlap_StartInsideOnly(cursor, slot_end, busy) ==
    \E i \in 1..Len(busy) : busy[i][1] <= cursor /\ cursor < busy[i][2]

\* Mutant: the closed test; an interval that only touches counts as overlap.
Overlap_Closed(cursor, slot_end, busy) ==
    \E i \in 1..Len(busy) : cursor <= busy[i][2] /\ slot_end >= busy[i][1]

\* overlap = any(start_dt < busy[1] and slot_end > busy[0] for busy in busy_slots)
Overlap(cursor, slot_end, busy) ==
    \E i \in 1..Len(busy) : cursor < busy[i][2] /\ slot_end > busy[i][1]

\* Mutant: the loop stops one candidate early (< for <=).
LoopCond_Strict(cursor, end_dt, duration) == cursor + duration < end_dt

\* while start_dt + timedelta(minutes=duration_minutes) <= end_dt
LoopCond(cursor, end_dt, duration) == cursor + duration <= end_dt

\* the loop body's effect on available_slots
LoopAppend(slots, cursor, duration, busy) ==
    IF ~Overlap(cursor, cursor + duration, busy)
    THEN Append(slots, <<cursor, cursor + duration>>)
    ELSE slots

\* Mutant: the cursor advances by half the stride.
Advance_HalfStride(cursor) == cursor + Stride \div 2

\* start_dt += timedelta(minutes=30)
Advance(cursor) == cursor + Stride

\* The whole loop, as the pure function of (start, end, busy, duration) it is.
RECURSIVE SlotLoop(_, _, _, _, _)
SlotLoop(slots, cursor, end_dt, duration, busy) ==
    IF LoopCond(cursor, end_dt, duration)
    THEN SlotLoop(LoopAppend(slots, cursor, duration, busy),
                  Advance(cursor), end_dt, duration, busy)
    ELSE slots

\* return available_slots, busy_slots
get_available_slots_on_calender(s, e, duration, busy) ==
    <<SlotLoop(<<>>, s, e, duration, busy), busy>>

\* The caller has made one call so far and kept nothing of it.
NoOutput ==
    [phase |-> "first", start |-> 0, end |-> 0, busy |-> <<>>, free |-> <<>>]

\* ---- the same call, one loop iteration per step
EngineInputs ==
    /\ start \in Instants
    /\ end \in Instants
    /\ duration_minutes = DefaultDuration
    /\ busy_slots \in BusyLists
    /\ start_dt = start
    /\ available_slots = <<>>
    /\ eng_pc = "loop"
    /\ first_call = NoOutput

EngineIterate ==
    /\ eng_pc = "loop"
    /\ LoopCond(start_dt, end, duration_minutes)
    /\ available_slots' =
         LoopAppend(available_slots, start_dt, duration_minutes, busy_slots)
    /\ start_dt' = Advance(start_dt)
    /\ UNCHANGED <<start, end, duration_minutes, busy_slots, eng_pc,
                   first_call>>
    /\ UNCHANGED sessionVars

EngineReturn ==
    /\ eng_pc = "loop"
    /\ ~LoopCond(start_dt, end, duration_minutes)
    /\ eng_pc' = "returned"
    /\ UNCHANGED <<start, end, duration_minutes, busy_slots, start_dt,
                   available_slots, first_call>>
    /\ UNCHANGED sessionVars

EngineNext == EngineIterate \/ EngineReturn

\* ---- the call with duration_minutes given by the caller
EngineInputsAnyDuration ==
    /\ start \in Instants
    /\ end \in Instants
    /\ duration_minutes \in Durations
    /\ busy_slots \in BusyLists
    /\ start_dt = start
    /\ available_slots = <<>>
    /\ eng_pc = "loop"
    /\ first_call = NoOutput

\* ---- several calls in a row
\* Mutant: the list outlives the call (a module-level or default-argument list).
FreshList_Kept(old) == old

\* available_slots = []: each call starts with a new, empty list.
FreshList(old) == <<>>

\* the output and the arguments of the call that has just returned
KeptOutput(phase) ==
    IF first_call.phase = "first"
    THEN [phase |-> phase, start |-> start, end |-> end,
          busy |-> busy_slots, free |-> available_slots]
    ELSE [first_call EXCEPT !.phase = phase]

\* Between the two calls the caller makes a call of another window, for which
\* the backend reports another busy list.
EngineCallOther(s, e, busy) ==
    /\ eng_pc = "returned"
    /\ first_call.phase = "first"
    /\ <<s, e, busy>> # <<start, end, busy_slots>>
    /\ first_call' = KeptOutput("other")
    /\ start' = s
    /\ end' = e
    /\ busy_slots' = busy
    /\ start_dt' = s
    /\ available_slots' = FreshList(available_slots)
    /\ eng_pc' = "loop"
    /\ UNCHANGED duration_minutes
    /\ UNCHANGED sessionVars

\* The caller calls again with the arguments of its first call, and the
\* backend reports the busy list it reported then.
EngineCallAgain ==
    /\ eng_pc = "returned"
    /\ first_call.phase \in {"first", "other"}
    /\ first_call' = KeptOutput("again")
    /\ start' = first_call'.start
    /\ end' = first_call'.end
    /\ busy_slots' = first_call'.busy
    /\ start_dt' = first_call'.start
    /\ available_slots' = FreshList(available_slots)
    /\ eng_pc' = "loop"
    /\ UNCHANGED duration_minutes
    /\ UNCHANGED sessionVars

\* The other call's inputs: the whole day with an empty calendar, or nothing
\* but the first granule with a busy calendar.
OtherCalls ==
    { <<0, MaxTime, <<>> >>, <<0, Granule, << <<0, Granule>> >> >> }

RepeatNext ==
    \/ EngineIterate
    \/ EngineReturn
    \/ \E c \in OtherCalls : EngineCallOther(c[1], c[2], c[3])
    \/ EngineCallAgain

\* ------------------------------------------------------- the process state
SIDs == 1..MaxSid
ChatIds == 1..MaxChats
HandlerIds == 1..MaxHandlers

\* Mutant: one history list shared by every Chat (a class attribute).
ChatHistoryRef_Shared(c) == 1

\* Chat.__init__: self.chat_history = [] makes a list object of the instance's own.
ChatHistoryRef(c) == 2 * c - 1
\* handle_connect: the literal [] stored under 'chat_history'.
RegistryListRef(c) == 2 * c

ListRefs == 1..(2 * MaxChats)

\* The instants a conversation names: the first two slots of the calendar.
Named == {0, Stride}
\* The instants an availability window is asked with.
QueryTimes == {0, 2 * Stride}

\* A time expression as the language model writes it: an ISO string, a
\* natural-language phrase, or text that is neither.
Unparseable == [fmt |-> "bad", t |-> 0]
SlotExprs == [fmt : {"iso", "nl"}, t : Named] \cup {Unparseable}
QueryExprs == [fmt : {"iso"}, t : QueryTimes] \cup {Unparseable}

\* datetime.fromisoformat(x): the instant, or ValueError.
fromisoformat(x) ==
    IF x.fmt = "iso" THEN [ok |-> TRUE, t |-> x.t] ELSE [ok |-> FALSE, t |-> 0]

\* Mutant: a phrase that is not understood is read as the origin instant.
dateparser_parse_Guesses(x) ==
    IF x.fmt = "nl" THEN [ok |-> TRUE, t |-> x.t] ELSE [ok |-> TRUE, t |-> 0]

\* dateparser.parse(x, ...): the instant, or None.
dateparser_parse(x) ==
    IF x.fmt = "nl" THEN [ok |-> TRUE, t |-> x.t] ELSE [ok |-> FALSE, t |-> 0]

\* book_slot_on_calendar's try/except: ISO first, natural language as fallback.
ParseSlot(x) ==
    IF fromisoformat(x).ok THEN fromisoformat(x) ELSE dateparser_parse(x)

\* What a user's text explicitly confirms: no slot, or one specific slot.
Confirmations == {{}} \cup {{t} : t \in Named}
\* A reply of the agent, by the slots it presents.
Replies == [presents : SUBSET Named]
NoReply == [presents |-> {}]
NoMessage == [n |-> 0, confirms |-> {}]
NoEmit == [event |-> "none", sid |-> 0, n |-> 0, error |-> "",
           message |-> NoReply]

\* the history a Chat instance holds
HistoryOf(c) == lists[ChatHistoryRef(c)]

\* No tool of the handler waits for the backend.
NoPending == [slot |-> Unparseable, s |-> 0, e |-> 0, history |-> <<>>]

Idle ==
    [pc |-> "idle", sid |-> 0, chat |-> 0, message |-> NoMessage,
     full_input |-> <<>>, tools |-> 0, pending |-> NoPending]

NoCall ==
    [result |-> "none", chat |-> 0, sid |-> 0, input |-> NoMessage,
     history |-> <<>>, slot |-> Unparseable, at |-> 0]

Range(f) == {f[i] : i \in DOMAIN f}

\* The backend's answer to a free/busy query: the events that meet the window,
\* in chronological order.
RECURSIVE Chronological(_)
Chronological(S) ==
    IF S = {} THEN <<>>
    ELSE LET first == CHOOSE x \in S : \A y \in S : x[1] <= y[1]
         IN <<first>> \o Chronological(S \ {first})

FreeBusy(cal, s, e) ==
    Chronological({b \in cal : b[1] < e /\ b[2] > s})

\* ------------------------------------------------------------------- Chat
\* add_to_history: self.chat_history.append({"role": role, "content": message})
add_to_history(history, role, message) ==
    Append(history, [role |-> role, content |-> message])

\* build_input_from_history: one "User: "/"Assistant: " line per stored turn,
\* then the new input's line (the closing "Assistant:" is the same for all).
build_input_from_history(history, user_input) ==
    [i \in 1..(Len(history) + 1) |->
        IF i <= Len(history)
        THEN [prefix |-> IF history[i].role = "user" THEN "User: "
                         ELSE "Assistant: ",
              content |-> history[i].content]
        ELSE [prefix |-> "User: ", content |-> user_input]]

\* chat(): what the history list holds after agent.run returned response.
ChatAppend(history, user_input, response) ==
    add_to_history(add_to_history(history, "user", user_input),
                   "assistant", response)

\* Mutant: chat() records the user turn before it runs the agent.
ChatRaise_UserTurnKept(history, user_input) ==
    add_to_history(history, "user", user_input)

\* chat(): what the history list holds when agent.run raises.
ChatRaise(history, user_input) == history

\* handle_message's except branch: emit('error', {'error': str(e)})
Except(sid, message, e) ==
    [event |-> "error", sid |-> sid, n |-> message.n, error |-> e,
     message |-> NoReply]

\* handle_message's last statement: emit('response', {"message": response})
EmitResponse(sid, message, response) ==
    [event |-> "response", sid |-> sid, n |-> message.n, error |-> "",
     message |-> response]

\* A step that emits nothing, asks the backend nothing and books nothing.
Silent == emitted' = NoEmit /\ sent' = <<>> /\ book_call' = NoCall

\* ----------------------------------------------------------------- app.py
\* ChatSessions[sid] = {'chat_instance': Chat(), 'chat_history': []}
ConnectEntry(registry, sid, c) ==
    [x \in DOMAIN registry \cup {sid} |->
        IF x = sid
        THEN [chat_instance |-> c, chat_history |-> RegistryListRef(c)]
        ELSE registry[x]]

handle_connect(sid) ==
    /\ nchats < MaxChats
    /\ nchats' = nchats + 1
    /\ ChatSessions' = ConnectEntry(ChatSessions, sid, nchats + 1)
    /\ Silent
    /\ UNCHANGED <<lists, handlers, msgs, calendar, reported>>
    /\ UNCHANGED engineVars

\* Mutant: the entry is not deleted.
DisconnectEntry_Kept(registry, sid) == registry

\* if sid in ChatSessions: del ChatSessions[sid]
DisconnectEntry(registry, sid) ==
    [x \in DOMAIN registry \ {sid} |-> registry[x]]

handle_disconnect(sid) ==
    /\ ChatSessions' = DisconnectEntry(ChatSessions, sid)
    /\ Silent
    /\ UNCHANGED <<nchats, lists, handlers, msgs, calendar, reported>>
    /\ UNCHANGED engineVars

\* A new green thread takes the first handler record that is not running.
FreeHandler(h) ==
    /\ handlers[h].pc = "idle"
    /\ \A g \in HandlerIds : g < h => handlers[g].pc # "idle"

\* handle_message up to the agent's first blocking call: the registry lookup
\* and chat()'s build_input_from_history.
handle_message_begin(sid, h, confirms) ==
    /\ msgs < MaxMsgs
    /\ FreeHandler(h)
    /\ sid \in DOMAIN ChatSessions
    /\ msgs' = msgs + 1
    /\ LET c == ChatSessions[sid].chat_instance
           message == [n |-> msgs + 1, confirms |-> confirms]
       IN handlers' = [handlers EXCEPT ![h] =
            [pc |-> "agent", sid |-> sid, chat |-> c, message |-> message,
             full_input |->
                build_input_from_history(lists[ChatHistoryRef(c)], message),
             tools |-> 0, pending |-> NoPending]]
    /\ Silent
    /\ UNCHANGED <<ChatSessions, nchats, lists, calendar, reported>>
    /\ UNCHANGED engineVars

\* Mutant: the lookup creates a session for a sid it does not know.
handle_message_unknown_Creates(sid, confirms) ==
    /\ msgs < MaxMsgs
    /\ nchats < MaxChats
    /\ sid \notin DOMAIN ChatSessions
    /\ msgs' = msgs + 1
    /\ nchats' = nchats + 1
    /\ ChatSessions' = ConnectEntry(ChatSessions, sid, nchats + 1)
    /\ emitted' = Except(sid, [n |-> msgs + 1, confirms |-> confirms],
                         "KeyError")
    /\ sent' = <<>>
    /\ book_call' = NoCall
    /\ UNCHANGED <<lists, handlers, calendar, reported>>
    /\ UNCHANGED engineVars

\* handle_message for a sid the registry does not hold: ChatSessions[sid]
\* raises KeyError, caught by the except branch.
handle_message_unknown(sid, confirms) ==
    /\ msgs < MaxMsgs
    /\ sid \notin DOMAIN ChatSessions
    /\ msgs' = msgs + 1
    /\ emitted' = Except(sid, [n |-> msgs + 1, confirms |-> confirms],
                         "KeyError")
    /\ sent' = <<>>
    /\ book_call' = NoCall
    /\ UNCHANGED <<ChatSessions, nchats, lists, handlers, calendar, reported>>
    /\ UNCHANGED engineVars

\* handler h is inside agent.run and not inside a tool
Running(h) == handlers[h].pc = "agent"
CanCallTool(h) == Running(h) /\ handlers[h].tools < MaxTools
\* the tool of handler h returns to the agent
ToolReturned(h) ==
    [handlers EXCEPT ![h].pc = "agent", ![h].tools = @ + 1,
                     ![h].pending = NoPending]
\* handler h blocks in .execute() of the request it has just sent; the green
\* thread yields until the backend answers
Waits(h, api, pending) ==
    [handlers EXCEPT ![h].pc = api, ![h].pending = pending]
Waiting(h, api) == handlers[h].pc = api

\* the green thread of handler h ends
Ended(h) == [handlers EXCEPT ![h] = Idle]

\* ------------------------------------------------- the agent's tool calls
NothingReported == [queried |-> FALSE, busy |-> {}]

\* get_available_slots's return value, as the tool hands it to the agent:
\* the BUSY SLOTS of get_available_slots_on_calender's second list.
Report(old, result) ==
    [queried |-> TRUE, busy |-> old.busy \cup Range(result[2])]

\* get_available_slots: fromisoformat raises ValueError, the tool returns
\* "Invalid datetime format. ..." and the backend is not asked.
get_available_slots_invalid(h, start_time, end_time) ==
    /\ CanCallTool(h)
    /\ ~fromisoformat(start_time).ok \/ ~fromisoformat(end_time).ok
    /\ handlers' = ToolReturned(h)
    /\ Silent
    /\ UNCHANGED <<ChatSessions, nchats, lists, msgs, calendar, reported>>
    /\ UNCHANGED engineVars

\* the free/busy request of get_available_slots_on_calender
FreeBusyRequest(s, e) == [api |-> "freebusy", timeMin |-> s, timeMax |-> e]

\* get_available_slots: both strings parse; get_available_slots_on_calender
\* builds the body and sends the query; the handler waits in execute().
get_available_slots_request(h, start_time, end_time) ==
    /\ CanCallTool(h)
    /\ fromisoformat(start_time).ok /\ fromisoformat(end_time).ok
    /\ LET s == fromisoformat(start_time).t
           e == fromisoformat(end_time).t
       IN /\ sent' = <<FreeBusyRequest(s, e)>>
          /\ handlers' = Waits(h, "freebusy",
                               [NoPending EXCEPT !.s = s, !.e = e])
    /\ emitted' = NoEmit
    /\ book_call' = NoCall
    /\ UNCHANGED <<ChatSessions, nchats, lists, msgs, calendar, reported>>
    /\ UNCHANGED engineVars

\* Mutant: the exception is not caught; the green thread dies silently.
get_available_slots_raises_Uncaught(h) ==
    /\ Waiting(h, "freebusy")
    /\ emitted' = NoEmit
    /\ handlers' = Ended(h)
    /\ sent' = <<>>
    /\ book_call' = NoCall
    /\ UNCHANGED <<ChatSessions, nchats, lists, msgs, calendar, reported>>
    /\ UNCHANGED engineVars

\* get_available_slots: service.freebusy().query(...).execute() raises; the
\* exception leaves the tool, agent.run, chat() and reaches the except branch.
get_available_slots_raises(h) ==
    /\ Waiting(h, "freebusy")
    /\ lists' = [lists EXCEPT ![ChatHistoryRef(handlers[h].chat)] =
                    ChatRaise(@, handlers[h].message)]
    /\ emitted' = Except(handlers[h].sid, handlers[h].message, "BackendError")
    /\ handlers' = Ended(h)
    /\ sent' = <<>>
    /\ book_call' = NoCall
    /\ UNCHANGED <<ChatSessions, nchats, msgs, calendar, reported>>
    /\ UNCHANGED engineVars

\* get_available_slots: the backend answers from the calendar as it is then,
\* and the engine enumerates.
get_available_slots_returns(h) ==
    /\ Waiting(h, "freebusy")
    /\ LET s == handlers[h].pending.s
           e == handlers[h].pending.e
           result == get_available_slots_on_calender(
                        s, e, DefaultDuration, FreeBusy(calendar, s, e))
       IN reported' =
             [reported EXCEPT ![handlers[h].chat] = Report(@, result)]
    /\ handlers' = ToolReturned(h)
    /\ Silent
    /\ UNCHANGED <<ChatSessions, nchats, lists, msgs, calendar>>
    /\ UNCHANGED engineVars

\* An invocation of book_slot by handler h: what it was called with, what the
\* Chat's history held when it was called, and how it ended.
Invocation(h, slot, at, history, result) ==
    [result |-> result, chat |-> handlers[h].chat, sid |-> handlers[h].sid,
     input |-> handlers[h].message, history |-> history,
     slot |-> slot, at |-> at]

\* book_slot_on_calendar: neither parser understands the slot; the text
\* "Could not understand the time slot. ..." is returned.
book_slot_not_understood(h, slot) ==
    /\ CanCallTool(h)
    /\ ~ParseSlot(slot).ok
    /\ book_call' = Invocation(h, slot, 0, HistoryOf(handlers[h].chat),
                               "not understood")
    /\ sent' = <<>>
    /\ emitted' = NoEmit
    /\ handlers' = ToolReturned(h)
    /\ UNCHANGED <<ChatSessions, nchats, lists, msgs, calendar, reported>>
    /\ UNCHANGED engineVars

\* the event book_slot_on_calendar inserts
BookedEvent(at) == <<at, at + BookingMinutes>>

\* the events().insert request
InsertRequest(at) ==
    [api |-> "insert", timeMin |-> at, timeMax |-> at + BookingMinutes]

\* book_slot_on_calendar: the slot parses, the event is built and the insert
\* is sent; the handler waits in execute().
book_slot_request(h, slot) ==
    /\ CanCallTool(h)
    /\ ParseSlot(slot).ok
    /\ LET at == ParseSlot(slot).t
       IN /\ sent' = <<InsertRequest(at)>>
          /\ handlers' = Waits(h, "insert",
                               [slot |-> slot, s |-> at,
                                e |-> at + BookingMinutes,
                                history |-> HistoryOf(handlers[h].chat)])
    /\ emitted' = NoEmit
    /\ book_call' = NoCall
    /\ UNCHANGED <<ChatSessions, nchats, lists, msgs, calendar, reported>>
    /\ UNCHANGED engineVars

\* the invocation that handler h's pending insert belongs to
PendingInvocation(h, result) ==
    Invocation(h, handlers[h].pending.slot, handlers[h].pending.s,
               handlers[h].pending.history, result)

\* book_slot_on_calendar: service.events().insert(...).execute() succeeds and
\* "Slot booked for ... Meet link: ..." is returned.
book_slot_books(h) ==
    /\ Waiting(h, "insert")
    /\ calendar' = calendar \cup {BookedEvent(handlers[h].pending.s)}
    /\ book_call' = PendingInvocation(h, "booked")
    /\ emitted' = NoEmit
    /\ sent' = <<>>
    /\ handlers' = ToolReturned(h)
    /\ UNCHANGED <<ChatSessions, nchats, lists, msgs, reported>>
    /\ UNCHANGED engineVars

\* Mutant: the failed insert is swallowed and the confirmation returned.
book_slot_raises_Swallowed(h) ==
    /\ Waiting(h, "insert")
    /\ book_call' = PendingInvocation(h, "booked")
    /\ emitted' = NoEmit
    /\ sent' = <<>>
    /\ handlers' = ToolReturned(h)
    /\ UNCHANGED <<ChatSessions, nchats, lists, msgs, calendar, reported>>
    /\ UNCHANGED engineVars

\* book_slot_on_calendar: the insert raises; the exception reaches the except
\* branch of handle_message.
book_slot_raises(h) ==
    /\ Waiting(h, "insert")
    /\ book_call' = PendingInvocation(h, "raised")
    /\ lists' = [lists EXCEPT ![ChatHistoryRef(handlers[h].chat)] =
                    ChatRaise(@, handlers[h].message)]
    /\ emitted' = Except(handlers[h].sid, handlers[h].message, "BackendError")
    /\ handlers' = Ended(h)
    /\ sent' = <<>>
    /\ UNCHANGED <<ChatSessions, nchats, msgs, calendar, reported>>
    /\ UNCHANGED engineVars

\* agent.run raises for a reason of its own (the language model's API fails).
agent_raises(h) ==
    /\ Running(h)
    /\ lists' = [lists EXCEPT ![ChatHistoryRef(handlers[h].chat)] =
                    ChatRaise(@, handlers[h].message)]
    /\ emitted' = Except(handlers[h].sid, handlers[h].message, "AgentError")
    /\ handlers' = Ended(h)
    /\ sent' = <<>>
    /\ book_call' = NoCall
    /\ UNCHANGED <<ChatSessions, nchats, msgs, calendar, reported>>
    /\ UNCHANGED engineVars

\* ChatSessions[sid]['chat_history'] = chat_history
StoreHistory(registry, sid, ref) ==
    [registry EXCEPT ![sid].chat_history = ref]

\* agent.run returns response: chat() appends both turns and returns the list,
\* handle_message stores it in the registry and emits the response.
agent_returns(h, response) ==
    /\ Running(h)
    /\ handlers[h].sid \in DOMAIN ChatSessions
    /\ lists' = [lists EXCEPT ![ChatHistoryRef(handlers[h].chat)] =
                    ChatAppend(@, handlers[h].message, response)]
    /\ ChatSessions' = StoreHistory(ChatSessions, handlers[h].sid,
                                    ChatHistoryRef(handlers[h].chat))
    /\ emitted' = EmitResponse(handlers[h].sid, handlers[h].message, response)
    /\ handlers' = Ended(h)
    /\ sent' = <<>>
    /\ book_call' = NoCall
    /\ UNCHANGED <<nchats, msgs, calendar, reported>>
    /\ UNCHANGED engineVars

\* The same, the sid having been disconnected meanwhile: chat() has appended
\* both turns when ChatSessions[sid] raises KeyError.
agent_returns_unregistered(h, response) ==
    /\ Running(h)
    /\ handlers[h].sid \notin DOMAIN ChatSessions
    /\ lists' = [lists EXCEPT ![ChatHistoryRef(handlers[h].chat)] =
                    ChatAppend(@, handlers[h].message, response)]
    /\ emitted' = Except(handlers[h].sid, handlers[h].message, "KeyError")
    /\ handlers' = Ended(h)
    /\ sent' = <<>>
    /\ book_call' = NoCall
    /\ UNCHANGED <<ChatSessions, nchats, msgs, calendar, reported>>
    /\ UNCHANGED engineVars

\* ------------------------------------------------------- specifications
EngineIdle ==
    /\ start = 0
    /\ end = 0
    /\ duration_minutes = DefaultDuration
    /\ busy_slots = <<>>
    /\ start_dt = 0
    /\ available_slots = <<>>
    /\ eng_pc = "returned"
    /\ first_call = NoOutput

\* The calendar holds one event when the process starts.
InitialCalendar == {BookedEvent(0)}

ProcessStart ==
    /\ ChatSessions = <<>>
    /\ nchats = 0
    /\ lists = [r \in ListRefs |-> <<>>]
    /\ handlers = [h \in HandlerIds |-> Idle]
    /\ msgs = 0
    /\ reported = [c \in ChatIds |-> NothingReported]
    /\ emitted = NoEmit
    /\ sent = <<>>
    /\ book_call = NoCall
    /\ calendar = InitialCalendar

Init == EngineIdle /\ ProcessStart

Next ==
    \/ \E sid \in SIDs : handle_connect(sid)
    \/ \E sid \in SIDs : handle_disconnect(sid)
    \/ \E sid \in SIDs, h \in HandlerIds, c \in Confirmations :
          handle_message_begin(sid, h, c)
    \/ \E sid \in SIDs, c \in Confirmations : handle_message_unknown(sid, c)
    \/ \E h \in HandlerIds, s \in QueryExprs, e \in QueryExprs :
          get_available_slots_invalid(h, s, e)
    \/ \E h \in HandlerIds, s \in QueryExprs, e \in QueryExprs :
          get_available_slots_request(h, s, e)
    \/ \E h \in HandlerIds : get_available_slots_raises(h)
    \/ \E h \in HandlerIds : get_available_slots_returns(h)
    \/ \E h \in HandlerIds, slot \in SlotExprs : book_slot_not_understood(h, slot)
    \/ \E h \in HandlerIds, slot \in SlotExprs : book_slot_request(h, slot)
    \/ \E h \in HandlerIds : book_slot_books(h)
    \/ \E h \in HandlerIds : book_slot_raises(h)
    \/ \E h \in HandlerIds : agent_raises(h)
    \/ \E h \in HandlerIds, r \in Replies : agent_returns(h, r)
    \/ \E h \in HandlerIds, r \in Replies : agent_returns_unregistered(h, r)

Spec == Init /\ [][Next]_vars

EngineInit == EngineInputs /\ ProcessStart

SpecEngine == EngineInit /\ [][EngineNext]_vars

SpecRepeat == EngineInit /\ [][RepeatNext]_vars

DurationsInit == EngineInputsAnyDuration /\ ProcessStart

SpecDurations == DurationsInit /\ [][EngineNext]_vars

\* =================================================== the engine's claims
Returned == eng_pc = "returned"

\* the candidates W.start + k * 30min the scan can reach inside the bounds
Ks == 0..(MaxTime \div Stride + 1)
Candidate(k) == <<start + k * Stride, start + k * Stride + duration_minutes>>
Qualifies(k) ==
    /\ Candidate(k)[2] <= end
    /\ \A i \in 1..Len(busy_slots) :
          ~(Candidate(k)[1] < busy_slots[i][2] /\ Candidate(k)[2] > busy_slots[i][1])
\* iterations done so far
Done == (start_dt - start) \div Stride

\* C1: every free slot returned lies inside the window [start, end], lasts
\* exactly the configured 30 minutes and overlaps no busy interval under the
\* half-open test.
C1_SlotsInsideWindowAndFree ==
    \A i \in 1..Len(available_slots) :
        LET slot == available_slots[i] IN
        /\ slot[1] >= start
        /\ slot[2] <= end
        /\ slot[2] - slot[1] = DefaultDuration
        /\ \A j \in 1..Len(busy_slots) :
              ~(slot[1] < busy_slots[j][2] /\ slot[2] > busy_slots[j][1])

\* C1's case: a call has returned several free slots from a window in which a
\* busy interval excluded at least one candidate.
C1_Witness ==
    /\ Returned
    /\ Len(available_slots) >= 2
    /\ Len(busy_slots) >= 1
    /\ \E k \in Ks : Candidate(k)[2] <= end /\ ~Qualifies(k)

\* C4 (state): at every point of the scan the list holds exactly the
\* qualifying candidates of the iterations done, in order, and the cursor is
\* start + 30min * iterations; on return the scan has passed the last candidate
\* that fits.  Window 0..180 with busy 30..60 (09:00-12:00 with 09:30-10:00)
\* yields the slots starting at 0, 60, 90, 120 and 150.
C4_State ==
    /\ start_dt = start + Done * Stride
    /\ Len(available_slots) = Cardinality({k \in Ks : k < Done /\ Qualifies(k)})
    /\ \A i \in 1..Len(available_slots) :
          \E k \in Ks : /\ k < Done /\ Qualifies(k)
                        /\ available_slots[i] = Candidate(k)
                        /\ i = Cardinality({j \in Ks : j <= k /\ Qualifies(j)})
    /\ Returned => /\ start_dt + duration_minutes > end
                   /\ \A k \in Ks : Qualifies(k) => k < Done
                   /\ available_slots =
                        get_available_slots_on_calender(
                            start, end, duration_minutes, busy_slots)[1]
    /\ (Returned /\ start = 0 /\ end = 180 /\ busy_slots = <<<<30, 60>>>>)
          => available_slots = << <<0, 30>>, <<60, 90>>, <<90, 120>>,
                                  <<120, 150>>, <<150, 180>> >>

\* C4 (step): an iteration advances the cursor by the stride whether or not it
\* accepted its candidate, the scan goes on while a candidate still fits and
\* stops at the first cursor with cursor + duration > end.
C4_Step ==
    /\ (eng_pc = "loop" /\ start_dt + duration_minutes <= end)
          => (eng_pc' = "loop" /\ start_dt' = start_dt + Stride)
    /\ (eng_pc = "loop" /\ start_dt + duration_minutes > end)
          => (eng_pc' = "returned" /\ available_slots' = available_slots)

\* C4: the free slots are exactly the qualifying candidates.
C4_ExactlyTheQualifyingCandidates == [](C4_State) /\ [][C4_Step]_vars

\* C4's case: the scenario's call has returned.
C4_Witness ==
    /\ Returned
    /\ start = 0 /\ end = 180 /\ busy_slots = <<<<30, 60>>>>
    /\ Len(available_slots) = 5

\* C5: the free slots are in strictly increasing order of start time and no two
\* of them overlap.
C5_OrderedAndDisjoint ==
    \A i, j \in 1..Len(available_slots) :
        i < j => /\ available_slots[i][1] < available_slots[j][1]
                 /\ available_slots[i][2] <= available_slots[j][1]

\* C5's case: a returned list of three or more slots with a gap left by a busy
\* interval.
C5_Witness ==
    /\ Returned
    /\ Len(available_slots) >= 3
    /\ \E i \in 1..(Len(available_slots) - 1) :
          available_slots[i][2] < available_slots[i + 1][1]

\* ================================================== the process's claims
Registered(sid) == sid \in DOMAIN ChatSessions
\* the history the registry shows for a sid
StoredHistory(sid) == lists[ChatSessions[sid].chat_history]
\* the turns of message n are in some list
Recorded(n) ==
    \E r \in ListRefs : \E i \in 1..Len(lists[r]) :
        lists[r][i].role = "user" /\ lists[r][i].content.n = n
\* handler h runs a handle_message call, in the agent or inside a tool
InFlight(h) == handlers[h].pc # "idle"
\* some step of the handle_message call that handler h runs
HandlerStep(h) == InFlight(h) /\ handlers'[h] # handlers[h]
\* some step of a handle_message call for sid
MessageStep(sid) ==
    \/ \E h \in HandlerIds, c \in Confirmations : handle_message_begin(sid, h, c)
    \/ \E c \in Confirmations : handle_message_unknown(sid, c)
    \/ \E h \in HandlerIds : handlers[h].sid = sid /\ HandlerStep(h)
\* handler h's agent run, or a tool it called, fails in this step
FailureStep(h) ==
    \/ agent_raises(h)
    \/ get_available_slots_raises(h)
    \/ book_slot_raises(h)

\* handler h invokes book_slot with slot in this step
Invokes(h, slot) ==
    book_slot_request(h, slot) \/ book_slot_not_understood(h, slot)

\* C2 (step): whenever a handler invokes book_slot, its session has surfaced
\* an availability result, the slot is understood, the immediately preceding
\* assistant turn of its history presented the very slot being booked, and the
\* latest user input confirms that slot.
C2_Step ==
    \A h \in HandlerIds, slot \in SlotExprs :
        Invokes(h, slot) =>
            LET history == HistoryOf(handlers[h].chat) IN
            /\ reported[handlers[h].chat].queried
            /\ ParseSlot(slot).ok
            /\ Len(history) > 0
            /\ history[Len(history)].role = "assistant"
            /\ ParseSlot(slot).t \in history[Len(history)].content.presents
            /\ handlers[h].message.confirms = {ParseSlot(slot).t}

\* C2: book_slot is invoked only for a slot that was presented in the turn
\* before and that the user has just confirmed.
C2_BookOnlyAPresentedConfirmedSlot == [][C2_Step]_vars

\* C3: a session handles one message at a time, in arrival order: no two
\* handlers of one session are in flight together, the agent input of a
\* handler in flight holds every turn its session has recorded, and each
\* history lists the messages in the order they arrived.
C3_OneMessageAtATimeInArrivalOrder ==
    /\ \A h, g \in HandlerIds :
          (h # g /\ InFlight(h) /\ InFlight(g))
             => handlers[h].chat # handlers[g].chat
    /\ \A h \in HandlerIds :
          InFlight(h) =>
             handlers[h].full_input =
                build_input_from_history(HistoryOf(handlers[h].chat),
                                         handlers[h].message)
    /\ \A r \in ListRefs : \A i, j \in 1..Len(lists[r]) :
          (i < j /\ lists[r][i].role = "user" /\ lists[r][j].role = "user")
             => lists[r][i].content.n < lists[r][j].content.n

\* C6 (state): after a failure of the agent or of a tool an error, not a
\* response, has gone to the client and no list holds a turn of that message.
C6_State ==
    emitted.error \in {"AgentError", "BackendError"} =>
        /\ emitted.event = "error"
        /\ ~Recorded(emitted.n)

\* C6 (step): the step in which the agent or a tool fails leaves every history
\* and the registry as they were and emits an error to the message's sid.
C6_Step ==
    \A h \in HandlerIds :
        FailureStep(h) =>
            /\ lists' = lists
            /\ ChatSessions' = ChatSessions
            /\ emitted'.event = "error"
            /\ emitted'.sid = handlers[h].sid
            /\ emitted'.n = handlers[h].message.n

\* C6: a failing message leaves the session's history as it was and yields an
\* error.
C6_FailureLeavesHistory == [](C6_State) /\ [][C6_Step]_vars

\* C6's case: a backend failure has just ended a message of a session that is
\* still registered and holds the turns of an earlier message.
C6_Witness ==
    /\ emitted.event = "error"
    /\ emitted.error = "BackendError"
    /\ Registered(emitted.sid)
    /\ Len(StoredHistory(emitted.sid)) = 2
    /\ Len(HistoryOf(ChatSessions[emitted.sid].chat_instance)) = 2

\* C7 (state): no two live sessions share a Chat instance or a history list.
C7_NoSharing ==
    \A a, b \in DOMAIN ChatSessions :
        a # b =>
            /\ ChatSessions[a].chat_instance # ChatSessions[b].chat_instance
            /\ ChatSessions[a].chat_history # ChatSessions[b].chat_history
            /\ ChatHistoryRef(ChatSessions[a].chat_instance)
                  # ChatHistoryRef(ChatSessions[b].chat_instance)
            /\ ChatSessions[a].chat_history
                  # ChatHistoryRef(ChatSessions[b].chat_instance)

\* C7 (step): a step of a message for sid a leaves every other session's
\* registry entry and histories unchanged.
C7_Isolation ==
    \A a \in SIDs :
        MessageStep(a) =>
            \A b \in DOMAIN ChatSessions \ {a} :
                /\ b \in DOMAIN ChatSessions'
                /\ ChatSessions'[b] = ChatSessions[b]
                /\ lists'[ChatSessions[b].chat_history] = StoredHistory(b)
                /\ lists'[ChatHistoryRef(ChatSessions[b].chat_instance)]
                      = HistoryOf(ChatSessions[b].chat_instance)

\* C7: sessions are isolated from each other.
C7_SessionsIsolated == [](C7_NoSharing) /\ [][C7_Isolation]_vars

\* C7's case: two live sessions, each with a message handled, the latest
\* response being one of them.
C7_Witness ==
    /\ emitted.event = "response"
    /\ \E a, b \in DOMAIN ChatSessions :
          /\ a # b
          /\ Len(StoredHistory(a)) = 2
          /\ Len(StoredHistory(b)) = 2
          /\ StoredHistory(a)[1].content.n # StoredHistory(b)[1].content.n

\* C8: book_slot never asks the backend to book a slot that overlaps a busy
\* interval its session's availability tool has reported.
C8_NeverBookInsideReportedBusy ==
    [][\A h \in HandlerIds, slot \in SlotExprs :
          book_slot_request(h, slot) =>
              \A b \in reported[handlers[h].chat].busy :
                  ~(ParseSlot(slot).t < b[2]
                      /\ ParseSlot(slot).t + BookingMinutes > b[1])]_vars

\* C9: a connect for a sid that has a session fails and leaves that session
\* in place.
C9_DuplicateConnectKeepsSession ==
    [][\A sid \in SIDs :
          (Registered(sid) /\ handle_connect(sid))
             => ChatSessions'[sid] = ChatSessions[sid]]_vars

\* C10 (step): a disconnect leaves the sid unregistered, with no entry holding
\* its Chat or its lists; only a connect registers a sid; a handler that ends
\* while its sid is unregistered emits no response and leaves the registry
\* alone; a connect of an unregistered sid starts from empty histories.
C10_Step ==
    \A sid \in SIDs :
        /\ handle_disconnect(sid) =>
              /\ sid \notin DOMAIN ChatSessions'
              /\ Registered(sid) =>
                    \A x \in DOMAIN ChatSessions' :
                       /\ ChatSessions'[x].chat_instance
                             # ChatSessions[sid].chat_instance
                       /\ ChatSessions'[x].chat_history
                             # ChatSessions[sid].chat_history
                       /\ ChatSessions'[x].chat_history
                             # ChatHistoryRef(ChatSessions[sid].chat_instance)
        /\ (~Registered(sid) /\ sid \in DOMAIN ChatSessions')
              => handle_connect(sid)
        /\ (~Registered(sid) /\ handle_connect(sid)) =>
              /\ lists'[ChatSessions'[sid].chat_history] = <<>>
              /\ lists'[ChatHistoryRef(ChatSessions'[sid].chat_instance)] = <<>>
        /\ \A h \in HandlerIds :
              (HandlerStep(h) /\ handlers[h].sid = sid /\ ~Registered(sid)
                  /\ handlers'[h].pc = "idle")
                 => /\ emitted'.event = "error"
                    /\ ChatSessions' = ChatSessions

\* C10: after a disconnect the sid is absent until the next connect, also
\* when a handler for it was in flight, and the next connect starts empty.
C10_DisconnectRemovesSession == [][C10_Step]_vars

\* C10's case: a handler whose sid was disconnected while its agent ran has
\* just completed; its turns went to the discarded Chat and the sid is absent.
C10_Witness ==
    /\ emitted.event = "error"
    /\ emitted.error = "KeyError"
    /\ ~Registered(emitted.sid)
    /\ Recorded(emitted.n)

\* C11 (step): a message for a sid without a session ends in an error to that
\* sid and nothing else: no handler runs the agent, no backend request is sent,
\* no booking is made, and the registry, the Chats and the lists stay as they
\* were; the agent is only ever started for a registered sid.
C11_Step ==
    /\ \A sid \in SIDs :
          (\E c \in Confirmations : handle_message_unknown(sid, c)) =>
              /\ emitted'.event = "error"
              /\ emitted'.error = "KeyError"
              /\ emitted'.sid = sid
              /\ handlers' = handlers
              /\ sent' = <<>>
              /\ book_call' = NoCall
              /\ ChatSessions' = ChatSessions
              /\ nchats' = nchats
              /\ lists' = lists
              /\ calendar' = calendar
    /\ \A h \in HandlerIds :
          (handlers[h].pc = "idle" /\ handlers'[h].pc = "agent")
             => Registered(handlers'[h].sid)
    /\ (msgs' = msgs + 1 /\ emitted'.event = "error")
          => (~Registered(emitted'.sid) /\ ChatSessions' = ChatSessions)

\* C11: a message for an unknown session fails with an error and touches
\* nothing.
C11_UnknownSessionFails == [][C11_Step]_vars

\* C11's case: a message has just failed for a sid that had a session earlier
\* and has none now; no turn of it is recorded.
C11_Witness ==
    /\ emitted.event = "error"
    /\ emitted.error = "KeyError"
    /\ ~Registered(emitted.sid)
    /\ ~Recorded(emitted.n)
    /\ nchats >= 1
    /\ \A h \in HandlerIds : ~Running(h)

\* the latest step is the failure of a free/busy query
AvailabilityFailed ==
    /\ emitted.event = "error"
    /\ emitted.error = "BackendError"
    /\ book_call = NoCall

\* C12 (state): after a backend failure of the availability query the session,
\* if registered, accepts its next message, and a handler of a registered
\* session that is back in the agent can always end with a response.
C12_State ==
    /\ (AvailabilityFailed /\ Registered(emitted.sid) /\ msgs < MaxMsgs)
          => ENABLED (\E h \in HandlerIds, c \in Confirmations :
                         handle_message_begin(emitted.sid, h, c))
    /\ \A h \in HandlerIds :
          (Running(h) /\ Registered(handlers[h].sid))
             => ENABLED (\E r \in Replies : agent_returns(h, r))

\* C12 (step): the step in which the free/busy query fails ends the handler
\* with an error emitted to its sid and leaves the registry and every history
\* as they were; the handler was waiting for the answer of a request that
\* was sent.
C12_Step ==
    \A h \in HandlerIds :
        get_available_slots_raises(h) =>
            /\ Waiting(h, "freebusy")
            /\ handlers'[h] = Idle
            /\ emitted'.event = "error"
            /\ emitted'.sid = handlers[h].sid
            /\ emitted'.n = handlers[h].message.n
            /\ ChatSessions' = ChatSessions
            /\ lists' = lists

\* C12: a backend failure during the availability query ends the message with
\* an outcome for the client and leaves the session usable.
C12_BackendFailureLeavesSessionUsable == [](C12_State) /\ [][C12_Step]_vars

\* C12's case: the availability query of a registered session has just failed
\* and the session can take another message.
C12_Witness ==
    /\ AvailabilityFailed
    /\ Registered(emitted.sid)
    /\ msgs < MaxMsgs
    /\ ENABLED (\E h \in HandlerIds, c \in Confirmations :
                   handle_message_begin(emitted.sid, h, c))

\* C13: no free/busy request is sent for a window with start >= end.
C13_NoRequestForInvalidWindow ==
    \A i \in 1..Len(sent) :
        sent[i].api = "freebusy" => sent[i].timeMin < sent[i].timeMax

\* C16 (step): a book_slot invocation with a slot expression that neither
\* parser understands returns the failure text, sends no request to the
\* backend, books nothing and lets the agent go on.
C16_Step ==
    (book_call'.result # "none" /\ book_call'.slot = Unparseable) =>
        /\ book_call'.result = "not understood"
        /\ sent' = <<>>
        /\ calendar' = calendar
        /\ emitted' = NoEmit
        /\ \E h \in HandlerIds :
              /\ Running(h)
              /\ handlers' = ToolReturned(h)

\* C16: an unparseable slot yields the failure text and no insert.
C16_UnparseableSlotNotBooked == [][C16_Step]_vars

\* C16's case: book_slot has just been invoked with an unparseable slot.
C16_Witness ==
    /\ book_call.result = "not understood"
    /\ book_call.slot = Unparseable
    /\ sent = <<>>

\* C18 (step): an invocation of book_slot sends one insert request and waits;
\* while it waits it sends nothing more, and its wait ends either with the
\* event on the calendar and the confirmation, or with the calendar as it was,
\* no confirmation and an error to the client. Nothing else changes the
\* calendar or confirms a booking.
C18_Step ==
    /\ Cardinality({i \in 1..Len(sent') : sent'[i].api = "insert"}) <= 1
    /\ \A h \in HandlerIds :
          /\ (\E i \in 1..Len(sent') : sent'[i].api = "insert"
                 /\ handlers'[h] # handlers[h])
                => /\ Running(h)
                   /\ handlers'[h].pc = "insert"
                   /\ sent' = <<InsertRequest(handlers'[h].pending.s)>>
          /\ (Waiting(h, "insert") /\ handlers'[h] # handlers[h]) =>
                /\ sent' = <<>>
                /\ \/ /\ book_call'.result = "booked"
                      /\ book_call'.at = handlers[h].pending.s
                      /\ calendar' = calendar \cup {BookedEvent(book_call'.at)}
                      /\ BookedEvent(book_call'.at) \in calendar'
                      /\ handlers'[h].pc = "agent"
                      /\ handlers'[h].tools = handlers[h].tools + 1
                   \/ /\ book_call'.result = "raised"
                      /\ book_call'.at = handlers[h].pending.s
                      /\ calendar' = calendar
                      /\ emitted'.event = "error"
                      /\ emitted'.sid = handlers[h].sid
                      /\ handlers'[h] = Idle
    /\ book_call'.result \in {"booked", "raised"}
          => \E h \in HandlerIds :
                Waiting(h, "insert") /\ handlers'[h] # handlers[h]
    /\ calendar' # calendar => book_call'.result = "booked"

\* C18: one insert per booking, and a confirmation only for an insert that
\* succeeded.
C18_OneInsertConfirmedOnlyOnSuccess == [][C18_Step]_vars

\* C18's case: an insert has just failed for a slot the calendar does not
\* hold, and the failure went to the client.
C18_Witness ==
    /\ book_call.result = "raised"
    /\ BookedEvent(book_call.at) \notin calendar
    /\ emitted.event = "error"
    /\ emitted.error = "BackendError"
    /\ sent = <<>>

\* a busy interval ends where candidate k starts / starts where it ends
TouchedBefore(k) ==
    \E i \in 1..Len(busy_slots) : busy_slots[i][2] = Candidate(k)[1]
TouchedAfter(k) ==
    \E i \in 1..Len(busy_slots) : busy_slots[i][1] = Candidate(k)[2]
\* some busy interval shares more than an end point with candidate k, or lies
\* as a single instant strictly inside it
Intersected(k) ==
    \E i \in 1..Len(busy_slots) :
        /\ busy_slots[i][1] < Candidate(k)[2]
        /\ Candidate(k)[1] < busy_slots[i][2]

\* C14: when the call has returned, a candidate slot inside the window that a
\* busy interval touches at its start or at its end, and that no busy interval
\* intersects, is among the free slots.
C14_TouchingSlotKept ==
    Returned =>
        \A k \in Ks :
            ( /\ Candidate(k)[2] <= end
              /\ TouchedBefore(k) \/ TouchedAfter(k)
              /\ ~Intersected(k) )
            => \E i \in 1..Len(available_slots) :
                   available_slots[i] = Candidate(k)

\* C14's case: a returned free slot has one busy interval ending at its start
\* and another starting at its end.
C14_Witness ==
    /\ Returned
    /\ \E k \in Ks :
          /\ TouchedBefore(k)
          /\ TouchedAfter(k)
          /\ ~Intersected(k)
          /\ Candidate(k) \in Range(available_slots)

\* C15 (state): the second of two calls with the same window and the same busy
\* list, whether or not another call was made in between, returns the free
\* slots and the busy slots the first one returned.
C15_State ==
    (Returned /\ first_call.phase = "again") =>
        /\ available_slots = first_call.free
        /\ busy_slots = first_call.busy
        /\ start = first_call.start
        /\ end = first_call.end

\* C15 (step): while a call runs, its arguments and the busy list are what
\* they were when it began.
C15_Step ==
    eng_pc = "loop" =>
        /\ start' = start
        /\ end' = end
        /\ busy_slots' = busy_slots

\* C15: two calls with the same (W, B) give the same output, and a call
\* changes neither of its inputs.
C15_SameInputsSameOutput == [](C15_State) /\ [][C15_Step]_vars

\* C15's case: a repeated call has returned, after another call in between,
\* free slots that a busy interval thinned out.
C15_Witness ==
    /\ Returned
    /\ first_call.phase = "again"
    /\ Len(available_slots) >= 2
    /\ Len(busy_slots) >= 1
    /\ \E k \in Ks : Candidate(k)[2] <= end /\ ~Qualifies(k)

\* C17: whatever positive duration_minutes the call was given, every free slot
\* lasts exactly duration_minutes and no two free slots overlap.
C17_AnyDurationExactAndDisjoint ==
    /\ \A i \in 1..Len(available_slots) :
          available_slots[i][2] - available_slots[i][1] = duration_minutes
    /\ \A i \in 1..Len(available_slots) :
          \A j \in 1..Len(available_slots) :
              i < j => \/ available_slots[i][2] <= available_slots[j][1]
                       \/ available_slots[j][2] <= available_slots[i][1]

\* a history made of (user, assistant) pairs
Paired(history) ==
    /\ Len(history) % 2 = 0
    /\ \A i \in 1..Len(history) :
          history[i].role = IF i % 2 = 1 THEN "user" ELSE "assistant"
\* every turn of history a is, at the same place, a turn of history b
IsPrefix(a, b) ==
    /\ Len(a) <= Len(b)
    /\ \A i \in 1..Len(a) : a[i] = b[i]

\* C19 (state): the history of every registered session has even length and
\* its roles alternate, starting with the user.
C19_State == \A sid \in DOMAIN ChatSessions : Paired(StoredHistory(sid))

\* C19 (step): while a session stays registered and no connect replaces it,
\* its history only grows at the end; a message handled with success adds to
\* it exactly the pair of that message's text and the reply.
C19_Step ==
    \A sid \in SIDs :
        /\ (Registered(sid) /\ sid \in DOMAIN ChatSessions'
              /\ ~handle_connect(sid))
             => IsPrefix(StoredHistory(sid),
                         lists'[ChatSessions'[sid].chat_history])
        /\ \A h \in HandlerIds :
              (handlers[h].sid = sid /\ \E r \in Replies : agent_returns(h, r))
                 => lists'[ChatSessions'[sid].chat_history] =
                      ChatAppend(StoredHistory(sid), handlers[h].message,
                                 emitted'.message)

\* C19: each session's history is append-only and made of adjacent
\* (user, assistant) pairs, one per message handled with success.
C19_HistoryAppendOnlyPairs == [](C19_State) /\ [][C19_Step]_vars

====
